---- MODULE Spec2Model ----
(***************************************************************************)
(* A model of cugl::physics2::CapsuleObstacle as found in                  *)
(* cugl/lib/physics2/CUCapsuleObstacle.cpp: the geometry computed by       *)
(* resize, and the fixtures kept on the real body and on the draw body.    *)
(*                                                                         *)
(* Numbers.  The code computes in float.  The model computes in fixed      *)
(* point: an integer n stands for n * 0.01, so DEFAULT_EPSILON is 1 and    *)
(* 1.0 is Unit.  Every length and density fed to the model is an even      *)
(* number of hundredths, so that each x / 2.0f of the code, which is exact *)
(* in binary floating point, is exact in the model as well.                *)
(*                                                                         *)
(* Not modelled: the debug wire frame (resetDebug), which is written and   *)
(* never read by the operations below, and the mass data that Box2D        *)
(* derives from the fixtures.                                              *)
(*                                                                         *)
(* The module also models the InputController of                           *)
(* source/GLInputController.cpp (the listeners it adds to the mouse and    *)
(* the touch screen, the state its callbacks buffer and the state update   *)
(* copies from it) and GameScene::update, which steps the two physics      *)
(* worlds.  Time steps are in milliseconds.  Of the spline only the knob   *)
(* that a press selects is kept: the knob found under the pointer is an    *)
(* input of GameScene_update.  Each object has its own specification:      *)
(* Spec and SpecReinit for the obstacle, SpecInput for the controller      *)
(* (SpecInputFair when update is called on every frame), SpecScene for     *)
(* the scene with its controller.                                          *)
(*                                                                         *)
(* Fields that no constructor assigns (_touchDown, _touchKey, sel,         *)
(* previous_timestep) start with any of the values listed in the           *)
(* Indeterminate... sets.  _touchDown, and _currDown and _prevDown, which  *)
(* receive copies of it, are kept as the byte they hold.                   *)
(***************************************************************************)
EXTENDS Integers, FiniteSets, Sequences

\* ------------------------------------------------------------------ bounds

\* one side of the capsule is 2.0 and the other is 2.0, 4.0, ... , 2.0 * MaxSize
MaxSize == 2

\* seam offsets passed to setSeamOffset are -0.01, 0 and 0.01 .. 0.01 * MaxEps
MaxEps == 2

\* densities passed to setDensity are 0, 5.0, ... , 5.0 * MaxDensity
MaxDensity == 2

\* pointer positions of mouse and touch events are (0, 0) .. (MaxPos, 0)
MaxPos == 1

\* listener keys a device hands out before init may not be called again
MaxKeys == 2

\* steps a physics world takes before its time is reset
MaxTime == 2

\* --------------------------------------------------------------- constants

\* #define DEFAULT_EPSILON 0.01, in hundredths
DEFAULT_EPSILON == 1

\* 1.0 in hundredths
Unit == 100 * DEFAULT_EPSILON

\* nullptr, for fixture handles; live fixtures are numbered from 1
NULL == 0

Orientations == {"FULL", "HALF", "HALF_REVERSE", "DEGENERATE"}

Sizes == {[width |-> 2 * a * Unit, height |-> 2 * Unit] : a \in 1..MaxSize}
         \cup {[width |-> 2 * Unit, height |-> 2 * a * Unit] : a \in 1..MaxSize}

SeamOffsets == {e * DEFAULT_EPSILON : e \in (-1)..MaxEps}

Densities == {5 * d * Unit : d \in 0..MaxDensity}

\* x / 2.0f
Half(x) == x \div 2

Vec(a, b) == [x |-> a, y |-> b]

\* ------------------------------------------------------------------- state

VARIABLES
    initialized,   \* init has run on this object
    orient,        \* _orient
    seamEpsilon,   \* _seamEpsilon
    dimension,     \* _dimension
    center,        \* _center, the b2AABB of the core
    shape,         \* _shape, the corners given to b2PolygonShape::Set
    ends,          \* _ends, the b2CircleShape of the caps: m_p and m_radius
    fixture,       \* _fixture, the b2FixtureDef: density and shape
    realcore, realcap1, realcap2,   \* _realcore, _realcap1, _realcap2
    drawcore, drawcap1, drawcap2,   \* _drawcore, _drawcap1, _drawcap2
    realbody,      \* _realbody: whether it exists, and its fixtures
    drawbody,      \* _drawbody: whether it exists, and its fixtures
    dirty,         \* the flag set by markDirty
    lastOp,        \* the operation that produced this state
    returned       \* how it ended: "void", "true", "false", or "assert"
                   \* when an assertion of the operation failed

vars == <<initialized, orient, seamEpsilon, dimension, center, shape, ends,
          fixture, realcore, realcap1, realcap2, drawcore, drawcap1, drawcap2,
          realbody, drawbody, dirty, lastOp, returned>>

\* the CapsuleObstacle itself
capsule == <<initialized, orient, seamEpsilon, dimension, center, shape, ends,
             fixture, realcore, realcap1, realcap2, drawcore, drawcap1,
             drawcap2, realbody, drawbody, dirty>>

handles == <<realcore, realcap1, realcap2, drawcore, drawcap1, drawcap2>>

geometry == <<dimension, center, shape, ends>>

VARIABLES
    mouse,         \* the cugl::Mouse device: whether Input::get<Mouse>() gives
                   \* one, its pointer awareness, the keys that have listeners
                   \* and the next key acquireKey returns
    touch,         \* the cugl::Touchscreen device, likewise
    active,        \* InputController::_active
    currDown,      \* _currDown, as the byte it holds
    prevDown,      \* _prevDown, as the byte it holds
    currPos,       \* _currPos
    prevPos,       \* _prevPos
    mouseDown,     \* _mouseDown
    mousePos,      \* _mousePos
    mouseKey,      \* _mouseKey
    touchDown,     \* _touchDown, as the byte it holds
    touchPos,      \* _touchPos
    touchKey,      \* _touchKey, a Uint32
    accepted       \* the last operation was a buttonDownCB or touchDownCB
                   \* that recorded a press

devices == <<mouse, touch>>

\* what the callbacks write
buffered == <<mouseDown, mousePos, touchDown, touchPos>>

\* what update writes and the scene reads
polled == <<currDown, prevDown, currPos, prevPos>>

\* the InputController and the devices it listens to
controller == <<devices, active, polled, buffered, mouseKey, touchKey>>

VARIABLES
    sceneActive,        \* GameScene::init has succeeded
    sel,                \* GameScene::sel, the selected knob or -1
    previous_timestep,  \* GameScene::previous_timestep, in milliseconds
    world,              \* *_world: its obstacles, time and last time step
    duplicate_world,    \* *_duplicate_world, likewise
    frame               \* what the last GameScene::update did

\* the GameScene
scene == <<sceneActive, sel, previous_timestep, world, duplicate_world, frame>>

allvars == <<vars, controller, scene, accepted>>

\* an operation of the CapsuleObstacle ends, returning ret; it touches
\* neither the input controller nor the scene
Done(op, ret) ==
    /\ lastOp' = op
    /\ returned' = ret
    /\ UNCHANGED <<controller, scene, accepted>>

\* ---------------------------------------------------------------- geometry

\* resize, lines 99-111: the AABB the adjustment starts from
initialAABB(size) ==
    LET iw == IF size.width > size.height
              THEN size.width ELSE size.width - size.height
        ih == IF size.width > size.height
              THEN size.height - size.width ELSE size.height
    IN  [upperBound |-> Vec(Half(iw), Half(ih)),
         lowerBound |-> Vec(Half(-iw), Half(-ih)),
         r |-> 0]

\* resize, lines 116-131
caseFull(c, size, eps) ==
    IF size.width > size.height
    THEN LET r == Half(size.height)
         IN  [upperBound |-> Vec(c.upperBound.x - r, c.upperBound.y - eps),
              lowerBound |-> Vec(c.lowerBound.x + r, c.lowerBound.y + eps),
              r |-> r]
    ELSE LET r == Half(size.width)
         IN  [upperBound |-> Vec(c.upperBound.x - eps, c.upperBound.y - r),
              lowerBound |-> Vec(c.lowerBound.x + eps, c.lowerBound.y + r),
              r |-> r]

\* resize, lines 132-145
caseHalf(c, size, eps) ==
    IF size.width > size.height
    THEN LET r == Half(size.height)
         IN  [upperBound |-> Vec(c.upperBound.x - r, c.upperBound.y - eps),
              lowerBound |-> Vec(c.lowerBound.x, c.lowerBound.y + eps),
              r |-> r]
    ELSE LET r == Half(size.width)
         IN  [upperBound |-> Vec(c.upperBound.x - eps, c.upperBound.y),
              lowerBound |-> Vec(c.lowerBound.x + eps, c.lowerBound.y + r),
              r |-> r]

\* resize, lines 146-158: the statements of case HALF_REVERSE
caseHalfReverse(c, size, eps) ==
    IF size.width > size.height
    THEN LET r == Half(size.height)
         IN  [upperBound |-> Vec(c.upperBound.x, c.upperBound.y - eps),
              lowerBound |-> Vec(c.lowerBound.x + r, c.lowerBound.y + eps),
              r |-> r]
    ELSE LET r == Half(size.width)
         IN  [upperBound |-> Vec(c.upperBound.x - eps, c.upperBound.y - r),
              lowerBound |-> Vec(c.lowerBound.x + eps, c.lowerBound.y),
              r |-> r]

\* resize, lines 159-165: the statements of case DEGENERATE
caseDegenerate(c, size) ==
    [upperBound |-> Vec(0, 0), lowerBound |-> Vec(0, 0), r |-> Half(size.width)]

\* resize, lines 114-166: the switch.  Case HALF_REVERSE has no break, so
\* control runs on into the statements of case DEGENERATE.
adjustCore(c, size, o, eps) ==
    CASE o = "FULL"         -> caseFull(c, size, eps)
      [] o = "HALF"         -> caseHalf(c, size, eps)
      [] o = "HALF_REVERSE" -> caseDegenerate(caseHalfReverse(c, size, eps), size)
      [] o = "DEGENERATE"   -> caseDegenerate(c, size)

\* resize without the guard of lines 168-176
handleDegenerate_none(c, eps) == c

\* resize, lines 168-176
handleDegenerate(c, eps) ==
    LET cx == IF c.lowerBound.x = c.upperBound.x
              THEN [c EXCEPT !.lowerBound.x = @ - eps, !.upperBound.x = @ + eps]
              ELSE c
    IN  IF cx.lowerBound.y = cx.upperBound.y
        THEN [cx EXCEPT !.lowerBound.y = @ - eps, !.upperBound.y = @ + eps]
        ELSE cx

\* resize, lines 178-188
corners(c) ==
    << Vec(c.lowerBound.x, c.lowerBound.y), Vec(c.lowerBound.x, c.upperBound.y),
       Vec(c.upperBound.x, c.upperBound.y), Vec(c.upperBound.x, c.lowerBound.y) >>

\* resize, lines 99-190, as a function of the size and of the _orient and
\* _seamEpsilon it reads: the new _center and the radius r
resizeGeometry(size, o, eps) ==
    handleDegenerate(adjustCore(initialAABB(size), size, o, eps), eps)

AABB(g) == [lowerBound |-> g.lowerBound, upperBound |-> g.upperBound]

\* ------------------------------------------------------------------ bodies

NoFixtures == [i \in {} |-> 0]

\* b2Body::CreateFixture: the handle of the fixture it will return
NewFixture(body) ==
    CHOOSE i \in 1..(Cardinality(DOMAIN body.fixtures) + 1) :
        /\ i \notin DOMAIN body.fixtures
        /\ \A j \in 1..(i - 1) : j \in DOMAIN body.fixtures

\* b2Body::CreateFixture(def): the body afterwards; the shape is cloned
CreateFixture(body, def) ==
    LET id == NewFixture(body)
    IN  [body EXCEPT !.fixtures =
            [i \in DOMAIN body.fixtures \cup {id} |->
                IF i = id THEN def ELSE body.fixtures[i]]]

\* b2Body::DestroyFixture(f): the body afterwards
DestroyFixture(body, f) ==
    [body EXCEPT !.fixtures =
        [i \in DOMAIN body.fixtures \ {f} |-> body.fixtures[i]]]

\* b2Fixture::SetDensity
SetDensity(body, f, value) ==
    [body EXCEPT !.fixtures[f].density = value]

\* what CreateFixture copies out of _fixture when _fixture.shape = &_shape
PolygonDef(sh, density) ==
    [kind |-> "polygon", vertices |-> sh, p |-> Vec(0, 0), radius |-> 0,
     density |-> density]

\* what CreateFixture copies out of _fixture when _fixture.shape = &_ends
CircleDef(e, density) ==
    [kind |-> "circle", vertices |-> <<>>, p |-> e.m_p, radius |-> e.m_radius,
     density |-> density]

\* the six handles and the two bodies, as one value
FixtureState ==
    [realbody |-> realbody, drawbody |-> drawbody,
     realcore |-> realcore, realcap1 |-> realcap1, realcap2 |-> realcap2,
     drawcore |-> drawcore, drawcap1 |-> drawcap1, drawcap2 |-> drawcap2]

SetFixtureState(fs) ==
    /\ realbody' = fs.realbody
    /\ drawbody' = fs.drawbody
    /\ realcore' = fs.realcore
    /\ realcap1' = fs.realcap1
    /\ realcap2' = fs.realcap2
    /\ drawcore' = fs.drawcore
    /\ drawcap1' = fs.drawcap1
    /\ drawcap2' = fs.drawcap2


\* ---------------------------------------------------------------- fixtures

\* an if-block of releaseFixtures that leaves the two handles as they were
releasePair_keepsHandles(fs, real, draw) ==
    IF fs[real] # NULL /\ fs[draw] # NULL
    THEN [fs EXCEPT !.realbody = DestroyFixture(@, fs[real]),
                    !.drawbody = DestroyFixture(@, fs[draw])]
    ELSE fs

\* releaseFixtures, one of the three if-blocks of lines 384-401
releasePair(fs, real, draw) ==
    IF fs[real] # NULL /\ fs[draw] # NULL
    THEN [fs EXCEPT !.realbody = DestroyFixture(@, fs[real]),
                    !.drawbody = DestroyFixture(@, fs[draw]),
                    ![real] = NULL,
                    ![draw] = NULL]
    ELSE fs

\* releaseFixtures doing nothing
releaseAll_none(fs) == fs

\* releaseFixtures, lines 383-402
releaseAll(fs) ==
    releasePair(releasePair(releasePair(fs, "realcore", "drawcore"),
                            "realcap1", "drawcap1"),
                "realcap2", "drawcap2")

\* _real... = _realbody->CreateFixture(&_fixture);
\* _draw... = _drawbody->CreateFixture(&_fixture);
createPair(fs, real, draw, def) ==
    [fs EXCEPT !.realbody = CreateFixture(@, def),
               !.drawbody = CreateFixture(@, def),
               ![real] = NewFixture(fs.realbody),
               ![draw] = NewFixture(fs.drawbody)]

\* line 287 without the test for a square: the orientation as requested
trueOrient_asRequested(size, o) == o

\* createFixtures, line 287
trueOrient(size, o) ==
    IF size.width = size.height THEN "DEGENERATE" ELSE o

\* line 300 left out: the centre of the last cap created stays in _ends
resetEnds_stale(e) == e

\* createFixtures, line 300: _ends.m_p.Set(0, 0)
resetEnds(e) == [e EXCEPT !.m_p = Vec(0, 0)]

\* lines 326-365 with the bounds of HALF and HALF_REVERSE exchanged
capMoves_halfSwapped(t, size, c) ==
    CASE t = "FULL" ->
            IF size.width > size.height
            THEN << [axis |-> "x", to |-> c.lowerBound.x],
                    [axis |-> "x", to |-> c.upperBound.x] >>
            ELSE << [axis |-> "y", to |-> c.upperBound.y],
                    [axis |-> "y", to |-> c.lowerBound.y] >>
      [] t = "HALF" ->
            IF size.width > size.height
            THEN << [axis |-> "x", to |-> c.upperBound.x] >>
            ELSE << [axis |-> "y", to |-> c.upperBound.y] >>
      [] t = "HALF_REVERSE" ->
            IF size.width > size.height
            THEN << [axis |-> "x", to |-> c.lowerBound.x] >>
            ELSE << [axis |-> "y", to |-> c.lowerBound.y] >>
      [] t = "DEGENERATE" -> << >>

\* createFixtures, lines 301-373: the assignments to one coordinate of
\* _ends.m_p, in the order made; each is followed by the creation of a cap
capMoves(t, size, c) ==
    CASE t = "FULL" ->
            IF size.width > size.height
            THEN << [axis |-> "x", to |-> c.lowerBound.x],
                    [axis |-> "x", to |-> c.upperBound.x] >>
            ELSE << [axis |-> "y", to |-> c.upperBound.y],
                    [axis |-> "y", to |-> c.lowerBound.y] >>
      [] t = "HALF" ->
            IF size.width > size.height
            THEN << [axis |-> "x", to |-> c.lowerBound.x] >>
            ELSE << [axis |-> "y", to |-> c.lowerBound.y] >>
      [] t = "HALF_REVERSE" ->
            IF size.width > size.height
            THEN << [axis |-> "x", to |-> c.upperBound.x] >>
            ELSE << [axis |-> "y", to |-> c.upperBound.y] >>
      [] t = "DEGENERATE" -> << >>

moveEnds(e, m) == [e EXCEPT !.m_p[m.axis] = m.to]

\* lines 303, 327 and 347 left out: the caps get the density of the core
capDensity_noSplit(t, d) == d

\* createFixtures, lines 303, 327 and 347: the density the caps are created
\* with, d being _fixture.density; case DEGENERATE does not divide
capDensity(t, d) == IF t = "DEGENERATE" THEN d ELSE Half(d)

\* lines 324, 344 and 364 left out: the halved density stays in _fixture
restoreDensity_none(t, d) == d

\* createFixtures, lines 324, 344 and 364: _fixture.density as it is left,
\* d being the density the caps were created with
restoreDensity(t, d) == IF t = "DEGENERATE" THEN d ELSE d * 2

\* createFixtures, lines 286-373, on the handles and bodies fs, the circle
\* shape e and the fixture definition fx: the three afterwards
createAll(fs, e, fx, size, o, c, sh) ==
    LET t     == trueOrient(size, o)
        fs0   == releaseAll(fs)
        fs1   == IF t = "DEGENERATE"
                 THEN [fs0 EXCEPT !.realcore = NULL, !.drawcore = NULL]
                 ELSE createPair(fs0, "realcore", "drawcore",
                                 PolygonDef(sh, fx.density))
        e0    == resetEnds(e)
        moves == capMoves(t, size, c)
        capd  == capDensity(t, fx.density)
        e1    == IF Len(moves) >= 1 THEN moveEnds(e0, moves[1]) ELSE e0
        fs2   == createPair(fs1, "realcap1", "drawcap1", CircleDef(e1, capd))
        e2    == IF Len(moves) = 2 THEN moveEnds(e1, moves[2]) ELSE e1
        fs3   == IF Len(moves) = 2
                 THEN createPair(fs2, "realcap2", "drawcap2", CircleDef(e2, capd))
                 ELSE [fs2 EXCEPT !.realcap2 = NULL, !.drawcap2 = NULL]
    IN  [fs |-> fs3,
         ends |-> e2,
         fixture |-> [density |-> restoreDensity(t, capd), shape |-> "_ends"]]

\* an if-block of setDensity that forgets the fixture of the draw body
densityPair_realOnly(fs, real, draw, value) ==
    IF fs[real] # NULL /\ fs[draw] # NULL
    THEN [fs EXCEPT !.realbody = SetDensity(@, fs[real], value)]
    ELSE fs

\* setDensity, one of the three if-blocks of lines 258-269
densityPair(fs, real, draw, value) ==
    IF fs[real] # NULL /\ fs[draw] # NULL
    THEN [fs EXCEPT !.realbody = SetDensity(@, fs[real], value),
                    !.drawbody = SetDensity(@, fs[draw], value)]
    ELSE fs

\* setDensity giving the caps the whole value
densityAll_capsFull(fs, value) ==
    densityPair(densityPair(densityPair(fs, "realcore", "drawcore", value),
                            "realcap1", "drawcap1", value),
                "realcap2", "drawcap2", value)

\* setDensity, lines 258-269
densityAll(fs, value) ==
    densityPair(densityPair(densityPair(fs, "realcore", "drawcore", value),
                            "realcap1", "drawcap1", Half(value)),
                "realcap2", "drawcap2", Half(value))

\* -------------------------------------------------------------- operations

\* the part of resize that writes: lines 97-195, with the _orient and the
\* _seamEpsilon in force when it runs
doResize(size, o, eps) ==
    LET g == resizeGeometry(size, o, eps)
    IN  /\ dimension' = size
        /\ center' = AABB(g)
        /\ shape' = corners(g)
        /\ ends' = [ends EXCEPT !.m_radius = g.r]
        /\ dirty' = TRUE

\* CapsuleObstacle::init(pos, size, shape)
init(size, value) ==
    /\ initialized' = TRUE
    /\ realcore' = NULL
    /\ realcap1' = NULL
    /\ realcap2' = NULL
    /\ orient' = value
    /\ seamEpsilon' = DEFAULT_EPSILON
    /\ doResize(size, value, DEFAULT_EPSILON)
    /\ Done("init", "true")
    /\ UNCHANGED <<fixture, drawcore, drawcap1, drawcap2, realbody, drawbody>>

\* CapsuleObstacle::resize(size)
resize(size) ==
    /\ initialized
    /\ doResize(size, orient, seamEpsilon)
    /\ Done("resize", "void")
    /\ UNCHANGED <<initialized, orient, seamEpsilon, fixture, handles,
                   realbody, drawbody>>

\* CapsuleObstacle::setShape(value)
setShape(value) ==
    /\ initialized
    /\ IF value # orient
       THEN /\ orient' = value
            /\ doResize(dimension, value, seamEpsilon)
       ELSE UNCHANGED <<orient, geometry, dirty>>
    /\ Done("setShape", "void")
    /\ UNCHANGED <<initialized, seamEpsilon, fixture, handles,
                   realbody, drawbody>>

\* setDensity that throws the fixtures away, to be created again later
setDensity_releases(value) ==
    /\ initialized
    /\ fixture' = [fixture EXCEPT !.density = value]
    /\ SetFixtureState(releaseAll(FixtureState))
    /\ Done("setDensity", "void")
    /\ UNCHANGED <<initialized, orient, seamEpsilon, geometry, dirty>>

\* CapsuleObstacle::setDensity(value)
setDensity(value) ==
    /\ initialized
    /\ fixture' = [fixture EXCEPT !.density = value]
    /\ SetFixtureState(densityAll(FixtureState, value))
    /\ Done("setDensity", "void")
    /\ UNCHANGED <<initialized, orient, seamEpsilon, geometry, dirty>>

\* createFixtures without the test for absent bodies of lines 282-284
createFixtures_unguarded ==
    /\ initialized
    /\ LET a == createAll(FixtureState, ends, fixture, dimension, orient,
                          center, shape)
       IN  /\ SetFixtureState(a.fs)
           /\ ends' = a.ends
           /\ fixture' = a.fixture
           /\ dirty' = FALSE
    /\ Done("createFixtures", "void")
    /\ UNCHANGED <<initialized, orient, seamEpsilon, dimension, center, shape>>

\* CapsuleObstacle::createFixtures()
createFixtures ==
    /\ initialized
    /\ IF ~realbody.live \/ ~drawbody.live
       THEN UNCHANGED <<handles, realbody, drawbody, ends, fixture, dirty>>
       ELSE LET a == createAll(FixtureState, ends, fixture, dimension, orient,
                               center, shape)
            IN  /\ SetFixtureState(a.fs)
                /\ ends' = a.ends
                /\ fixture' = a.fixture
                /\ dirty' = FALSE
    /\ Done("createFixtures", "void")
    /\ UNCHANGED <<initialized, orient, seamEpsilon, dimension, center, shape>>

\* CapsuleObstacle::releaseFixtures()
releaseFixtures ==
    /\ initialized
    /\ SetFixtureState(releaseAll(FixtureState))
    /\ Done("releaseFixtures", "void")
    /\ UNCHANGED <<initialized, orient, seamEpsilon, geometry, fixture, dirty>>

\* CUAssertLog(condition, ...): whether the operation goes on; a condition
\* that is false makes the operation fail at this point
CUAssertLog(condition) == condition

\* setSeamOffset that stores the value before it tests it
setSeamOffset_assignFirst(value) ==
    /\ initialized
    /\ seamEpsilon' = value
    /\ IF CUAssertLog(value > 0)
       THEN /\ dirty' = TRUE
            /\ Done("setSeamOffset", "void")
       ELSE /\ UNCHANGED dirty
            /\ Done("setSeamOffset", "assert")
    /\ UNCHANGED <<initialized, orient, geometry, fixture, handles,
                   realbody, drawbody>>

\* CapsuleObstacle::setSeamOffset(value)
setSeamOffset(value) ==
    /\ initialized
    /\ IF CUAssertLog(value > 0)
       THEN /\ seamEpsilon' = value
            /\ dirty' = TRUE
            /\ Done("setSeamOffset", "void")
       ELSE /\ UNCHANGED <<seamEpsilon, dirty>>
            /\ Done("setSeamOffset", "assert")
    /\ UNCHANGED <<initialized, orient, geometry, fixture, handles,
                   realbody, drawbody>>

\* the obstacle is given its two bodies, which carry no fixture yet
activatePhysics ==
    /\ initialized
    /\ ~realbody.live
    /\ ~drawbody.live
    /\ realbody' = [live |-> TRUE, fixtures |-> NoFixtures]
    /\ drawbody' = [live |-> TRUE, fixtures |-> NoFixtures]
    /\ Done("activatePhysics", "void")
    /\ UNCHANGED <<initialized, orient, seamEpsilon, geometry, fixture,
                   handles, dirty>>

\* --------------------------------------------------------- input controller

Positions == {Vec(x, 0) : x \in 0..MaxPos}

\* a cugl::MouseEvent: whether buttons.hasLeft() holds, and position
MouseEvents == [hasLeft : BOOLEAN, position : Positions]

\* a cugl::TouchEvent: position
TouchEvents == [position : Positions]

\* a device that Input::get gives (or nullptr when present is FALSE), with
\* no listener yet
Device(present) ==
    [present |-> present, awareness |-> "BUTTON", listeners |-> {},
     nextKey |-> 1]

\* acquireKey() and the three add...Listener(key, ...) calls of init on a
\* device that exists
attach(device) ==
    [device EXCEPT !.listeners = @ \cup {device.nextKey}, !.nextKey = @ + 1]

\* the three remove...Listener(key) calls of dispose
detach(device, key) == [device EXCEPT !.listeners = @ \ {key}]

\* an operation of the InputController ends, returning ret; it does not
\* touch the CapsuleObstacle
InputDone(op, ret) ==
    /\ lastOp' = op
    /\ returned' = ret
    /\ accepted' = \/ op = "buttonDownCB" /\ ~mouseDown /\ mouseDown'
                   \/ op = "touchDownCB" /\ touchDown # 1 /\ touchDown' = 1
    /\ UNCHANGED capsule

\* the body of InputController::init, lines 50-80; its result is active'
attachListeners ==
    /\ mouse' = IF mouse.present
                THEN [attach(mouse) EXCEPT !.awareness = "DRAG"]
                ELSE mouse
    /\ mouseKey' = IF mouse.present THEN mouse.nextKey ELSE mouseKey
    /\ touch' = IF touch.present THEN attach(touch) ELSE touch
    /\ touchKey' = IF touch.present THEN touch.nextKey ELSE touchKey
    /\ active' = IF mouse.present \/ touch.present THEN TRUE ELSE active

\* bool InputController::init()
InputController_init ==
    /\ mouse.nextKey <= MaxKeys
    /\ touch.nextKey <= MaxKeys
    /\ attachListeners
    /\ InputDone("InputController_init", IF active' THEN "true" ELSE "false")
    /\ UNCHANGED <<polled, buffered, scene>>

\* void InputController::dispose()
InputController_dispose ==
    /\ IF active
       THEN /\ mouse' = IF mouse.present
                        THEN [detach(mouse, mouseKey) EXCEPT
                                 !.awareness = "BUTTON"]
                        ELSE mouse
            /\ touch' = IF touch.present
                        THEN detach(touch, touchKey) ELSE touch
            /\ active' = FALSE
       ELSE UNCHANGED <<mouse, touch, active>>
    /\ InputDone("InputController_dispose", "void")
    /\ UNCHANGED <<polled, buffered, mouseKey, touchKey, scene>>

\* the byte of a bool that has been assigned: 0 for false, 1 for true
Byte(b) == IF b THEN 1 ELSE 0

\* the bytes a bool may hold that was never assigned: false, true, and 0xaa
\* for the bytes that are neither
IndeterminateBools == {0, 1, 170}

\* the values a Uint32 may hold that was never assigned: zero-filled
\* storage, and 0x01010101 for the rest
IndeterminateKeys == {0, 16843009}

\* what a test of a bool may find: a byte that is neither 0 nor 1 may test
\* as true and as false, in `if (b)' as in `if (!b)', from one test to the
\* next
Reads(byte) == IF byte \in {0, 1} THEN {byte = 1} ELSE BOOLEAN

\* update that reads the devices before it saves the current state
poll_currFirst ==
    /\ currDown' = IF mouse.present THEN Byte(mouseDown) ELSE touchDown
    /\ currPos' = IF mouse.present THEN mousePos ELSE touchPos
    /\ prevDown' = currDown'
    /\ prevPos' = currPos'

\* the body of InputController::update, lines 115-125
poll ==
    /\ prevDown' = currDown
    /\ prevPos' = currPos
    /\ currDown' = IF mouse.present THEN Byte(mouseDown) ELSE touchDown
    /\ currPos' = IF mouse.present THEN mousePos ELSE touchPos

\* void InputController::update()
InputController_update ==
    /\ poll
    /\ InputDone("InputController_update", "void")
    /\ UNCHANGED <<devices, active, buffered, mouseKey, touchKey, scene>>

\* the mouse delivers an event to the listeners init has added
MouseListens == mouse.present /\ mouse.listeners # {}

\* the touch screen delivers an event to the listeners init has added
TouchListens == touch.present /\ touch.listeners # {}

\* what a callback leaves alone besides the buffered device state
CallbackFrame == UNCHANGED <<devices, active, polled, mouseKey, touchKey, scene>>

\* void InputController::buttonDownCB(event, clicks, focus)
buttonDownCB(event) ==
    /\ MouseListens
    /\ IF ~mouseDown /\ event.hasLeft
       THEN /\ mouseDown' = TRUE
            /\ mousePos' = event.position
       ELSE UNCHANGED <<mouseDown, mousePos>>
    /\ UNCHANGED <<touchDown, touchPos>>
    /\ CallbackFrame
    /\ InputDone("buttonDownCB", "void")

\* buttonUpCB that takes the release of any button
buttonUpCB_anyButton(event) ==
    /\ MouseListens
    /\ IF mouseDown
       THEN mouseDown' = FALSE
       ELSE UNCHANGED mouseDown
    /\ UNCHANGED <<mousePos, touchDown, touchPos>>
    /\ CallbackFrame
    /\ InputDone("buttonUpCB", "void")

\* void InputController::buttonUpCB(event, clicks, focus)
buttonUpCB(event) ==
    /\ MouseListens
    /\ IF mouseDown /\ event.hasLeft
       THEN mouseDown' = FALSE
       ELSE UNCHANGED mouseDown
    /\ UNCHANGED <<mousePos, touchDown, touchPos>>
    /\ CallbackFrame
    /\ InputDone("buttonUpCB", "void")

\* void InputController::motionCB(event, previous, focus)
motionCB(event) ==
    /\ MouseListens
    /\ mouse.awareness = "DRAG"
    /\ IF mouseDown
       THEN mousePos' = event.position
       ELSE UNCHANGED mousePos
    /\ UNCHANGED <<mouseDown, touchDown, touchPos>>
    /\ CallbackFrame
    /\ InputDone("motionCB", "void")

\* void InputController::touchDownCB(event, focus)
touchDownCB(event) ==
    /\ TouchListens
    /\ \E down \in Reads(touchDown) :
          IF ~down
          THEN /\ touchDown' = 1
               /\ touchPos' = event.position
          ELSE UNCHANGED <<touchDown, touchPos>>
    /\ UNCHANGED <<mouseDown, mousePos>>
    /\ CallbackFrame
    /\ InputDone("touchDownCB", "void")

\* void InputController::touchUpCB(event, focus)
touchUpCB(event) ==
    /\ TouchListens
    /\ \E down \in Reads(touchDown) :
          IF down
          THEN touchDown' = 0
          ELSE UNCHANGED touchDown
    /\ UNCHANGED <<touchPos, mouseDown, mousePos>>
    /\ CallbackFrame
    /\ InputDone("touchUpCB", "void")

\* void InputController::touchmotionCB(event, previous, focus)
touchmotionCB(event) ==
    /\ TouchListens
    /\ \E down \in Reads(touchDown) :
          IF down
          THEN touchPos' = event.position
          ELSE UNCHANGED touchPos
    /\ UNCHANGED <<touchDown, mouseDown, mousePos>>
    /\ CallbackFrame
    /\ InputDone("touchmotionCB", "void")

\* the devices of the platform, before any listener is added
Devices(m, t) ==
    /\ mouse = Device(m)
    /\ touch = Device(t)

\* InputController::InputController(), lines 27-33; the initialiser list
\* names neither _touchDown nor _touchKey: td and tk are what the storage
\* of the two happens to hold
InputController_new(td, tk) ==
    /\ active = FALSE
    /\ currDown = 0
    /\ prevDown = 0
    /\ mouseDown = FALSE
    /\ mouseKey = 0
    /\ touchDown = td
    /\ touchKey = tk
    /\ currPos = Vec(0, 0)
    /\ prevPos = Vec(0, 0)
    /\ mousePos = Vec(0, 0)
    /\ touchPos = Vec(0, 0)
    /\ accepted = FALSE

\* ---------------------------------------------------------------- game scene

\* the frame times passed to GameScene::update, in milliseconds
Timesteps == {16, 33}

\* what the loop of lines 184-190 over the knobs 0 .. 7 may find: no knob
\* under the pointer, or the first or the last knob
Hits == {-1, 0, 7}

\* no physics2::ObstacleWorld yet
NoWorld == [allocated |-> FALSE, obstacles |-> 0, time |-> 0, timestep |-> 0]

\* physics2::ObstacleWorld::alloc(bounds, gravity)
ObstacleWorld_alloc ==
    [allocated |-> TRUE, obstacles |-> 0, time |-> 0, timestep |-> 0]

\* ObstacleWorld::clear()
clear(w) == [w EXCEPT !.obstacles = 0]

\* ObstacleWorld::addObstacle(obj)
addObstacle(w) == [w EXCEPT !.obstacles = @ + 1]

\* ObstacleWorld::update(dt): one step of the simulation, of length dt
ObstacleWorld_update(w, dt) == [w EXCEPT !.time = @ + 1, !.timestep = dt]

\* ObstacleWorld::resetTime()
resetTime(w) == [w EXCEPT !.time = 0]

\* GameScene::addObstacles(): the wall and the star
addObstacles(w) == addObstacle(addObstacle(clear(w)))

\* GameScene::addDuplicateObstacles(): the wall and the star
addDuplicateObstacles(w) == addObstacle(addObstacle(clear(w)))

\* InputController::didPress()
didPress(cd, pd) == ~pd /\ cd

\* InputController::didRelease()
didRelease(cd, pd) == ~cd /\ pd

\* what an update that did nothing would report
NoFrame == [stepped |-> FALSE, duplicate_stepped |-> FALSE, added |-> FALSE]

\* the values an int may hold that was never assigned: zero-filled storage,
\* -1 (storage filled with 0xff) and 0x3f3f3f3f for the rest
IndeterminateInts == {0, -1, 1061109567}

\* the values, in milliseconds, a float may hold that was never assigned:
\* zero-filled storage and 0.747 (storage filled with 0x3f) for the rest
IndeterminateTimes == {0, 747}

\* GameScene::GameScene(): nothing is allocated, and neither sel nor
\* previous_timestep is assigned: s and pt are what their storage happens
\* to hold
GameScene_new(s, pt) ==
    /\ sceneActive = FALSE
    /\ sel = s
    /\ previous_timestep = pt
    /\ world = NoWorld
    /\ duplicate_world = NoWorld
    /\ frame = NoFrame

\* bool GameScene::init(assets); assets is FALSE for nullptr, and scene2 is
\* what Scene2::init(dimen) returns
GameScene_init(assets, scene2) ==
    /\ IF ~assets \/ ~scene2
       THEN /\ UNCHANGED <<controller, scene>>
            /\ InputDone("GameScene_init", "false")
       ELSE /\ sceneActive' = TRUE
            /\ sel' = -1
            /\ previous_timestep' = 9
            /\ world' = addObstacles(ObstacleWorld_alloc)
            /\ duplicate_world' = addDuplicateObstacles(ObstacleWorld_alloc)
            /\ attachListeners
            /\ InputDone("GameScene_init", "true")
            /\ UNCHANGED <<polled, buffered, frame>>

\* the worlds are stepped whatever is selected
stepping_always(s) == TRUE

\* lines 172-177: the worlds are stepped in this frame, as no knob is selected
stepping(s) == s = -1

\* GameScene::update that steps the duplicate world in every frame
stepDuplicate_always(stepped, w, dt) == ObstacleWorld_update(w, dt)

\* line 179: the step of the duplicate world, taken in the frames in
\* which the primary world is stepped
stepDuplicate(stepped, w, dt) ==
    IF stepped THEN ObstacleWorld_update(w, dt) ELSE w

\* void GameScene::update(timestep); knob is the first knob less than
\* KNOB_RADIUS away from the pointer, -1 when there is none.  didPress and
\* didRelease each test _currDown and _prevDown anew.  The update is taken
\* once init has succeeded: before that _world is null and the call has no
\* defined outcome
GameScene_update(timestep, knob) ==
    /\ sceneActive
    /\ sel = -1 => world.time < MaxTime
    /\ poll
    /\ \E cd1 \in Reads(currDown'), pd1 \in Reads(prevDown'),
          cd2 \in Reads(currDown'), pd2 \in Reads(prevDown') :
       LET press   == didPress(cd1, pd1)
           release == didRelease(cd2, pd2)
           stepped == stepping(sel)
           w1      == IF stepped
                      THEN ObstacleWorld_update(world, timestep) ELSE world
           d1      == stepDuplicate(stepped, duplicate_world, previous_timestep)
           sel1    == IF press /\ knob # -1 THEN knob ELSE sel
       IN  /\ press \/ knob = -1
           /\ previous_timestep' = IF stepped THEN timestep
                                   ELSE previous_timestep
           /\ sel' = IF release THEN -1 ELSE sel1
           /\ world' = IF release THEN resetTime(addObstacles(w1)) ELSE w1
           /\ duplicate_world' =
                  IF release THEN resetTime(addDuplicateObstacles(d1)) ELSE d1
           /\ frame' = [stepped |-> w1 # world,
                        duplicate_stepped |-> d1 # duplicate_world,
                        added |-> release]
    /\ InputDone("GameScene_update", "void")
    /\ UNCHANGED <<devices, active, buffered, mouseKey, touchKey, sceneActive>>

\* ------------------------------------------------------------ specification

\* the obstacle as its constructor leaves it
CapsuleObstacle_new ==
    /\ initialized = FALSE
    /\ orient = "DEGENERATE"
    /\ seamEpsilon = 0
    /\ dimension = [width |-> 0, height |-> 0]
    /\ center = [lowerBound |-> Vec(0, 0), upperBound |-> Vec(0, 0)]
    /\ shape = << >>
    /\ ends = [m_p |-> Vec(0, 0), m_radius |-> 0]
    /\ fixture = [density |-> 0, shape |-> "nullptr"]
    /\ realcore = NULL
    /\ realcap1 = NULL
    /\ realcap2 = NULL
    /\ drawcore = NULL
    /\ drawcap1 = NULL
    /\ drawcap2 = NULL
    /\ realbody = [live |-> FALSE, fixtures |-> NoFixtures]
    /\ drawbody = [live |-> FALSE, fixtures |-> NoFixtures]
    /\ dirty = FALSE
    /\ lastOp = "constructor"
    /\ returned = "void"

\* the obstacle as its constructor leaves it.  No controller and no scene
\* is constructed: their variables are not used, and hold what zero-filled
\* storage gives
Init ==
    /\ CapsuleObstacle_new
    /\ Devices(FALSE, FALSE)
    /\ InputController_new(0, 0)
    /\ GameScene_new(0, 0)

\* an obstacle that is initialised once, as by CapsuleObstacle::alloc, and
\* then used through its public operations
Next ==
    \/ \E size \in Sizes, value \in Orientations :
          ~initialized /\ init(size, value)
    \/ \E size \in Sizes : resize(size)
    \/ \E value \in Orientations : setShape(value)
    \/ \E value \in Densities : setDensity(value)
    \/ \E value \in SeamOffsets : setSeamOffset(value)
    \/ createFixtures
    \/ releaseFixtures
    \/ activatePhysics

Spec == Init /\ [][Next]_vars

\* the most fixtures a body may carry when init is called again
MaxLeaked == 1

\* init called on an obstacle that is initialised already
reinit(size, value) ==
    /\ initialized
    /\ Cardinality(DOMAIN realbody.fixtures) <= MaxLeaked
    /\ init(size, value)

\* an obstacle on which init may be called again at any time
NextReinit ==
    \/ Next
    \/ \E size \in Sizes, value \in Orientations : reinit(size, value)

SpecReinit == Init /\ [][NextReinit]_vars

\* the controller as its constructor leaves it, on a platform that has a
\* mouse, a touch screen, both or neither
InputController_alloc ==
    /\ \E m \in BOOLEAN, t \in BOOLEAN : Devices(m, t)
    /\ \E td \in IndeterminateBools, tk \in IndeterminateKeys :
          InputController_new(td, tk)

\* a controller that is not the member of a scene: no scene is constructed,
\* and the variables of the scene are not used
InitInput ==
    /\ CapsuleObstacle_new
    /\ InputController_alloc
    /\ GameScene_new(0, 0)

\* the scene and its controller as their constructors leave them
InitScene ==
    /\ CapsuleObstacle_new
    /\ InputController_alloc
    /\ \E s \in IndeterminateInts, pt \in IndeterminateTimes :
          GameScene_new(s, pt)

\* the events the devices deliver
Callbacks ==
    \/ \E event \in MouseEvents : buttonDownCB(event)
    \/ \E event \in MouseEvents : buttonUpCB(event)
    \/ \E event \in MouseEvents : motionCB(event)
    \/ \E event \in TouchEvents : touchDownCB(event)
    \/ \E event \in TouchEvents : touchUpCB(event)
    \/ \E event \in TouchEvents : touchmotionCB(event)

\* an InputController used on its own
NextInput ==
    \/ InputController_init
    \/ InputController_dispose
    \/ InputController_update
    \/ Callbacks

SpecInput == InitInput /\ [][NextInput]_allvars

\* an InputController whose update is called again and again, as the
\* application does once per animation frame
SpecInputFair == SpecInput /\ WF_allvars(InputController_update)

\* the GameScene: it is initialised once and then updated frame by frame,
\* while the devices deliver events
NextScene ==
    \/ \E assets \in BOOLEAN, scene2 \in BOOLEAN :
          ~sceneActive /\ GameScene_init(assets, scene2)
    \/ \E timestep \in Timesteps, knob \in Hits :
          GameScene_update(timestep, knob)
    \/ Callbacks

SpecScene == InitScene /\ [][NextScene]_allvars


\* ------------------------------------------------------------------ claims

Width == dimension.width
Height == dimension.height
Horizontal == Width > Height
Major == IF Horizontal THEN Width ELSE Height
Minor == IF Horizontal THEN Height ELSE Width

\* the bounds of the core rectangle along the major and the minor axis
LowMajor == IF Horizontal THEN center.lowerBound.x ELSE center.lowerBound.y
HighMajor == IF Horizontal THEN center.upperBound.x ELSE center.upperBound.y
LowMinor == IF Horizontal THEN center.lowerBound.y ELSE center.lowerBound.x
HighMinor == IF Horizontal THEN center.upperBound.y ELSE center.upperBound.x

\* the state is the one resize left, computed with the current seam offset
Resized == lastOp \in {"init", "resize"}

\* createFixtures has just run on an obstacle that has both bodies
Created == lastOp = "createFixtures" /\ realbody.live /\ drawbody.live

Polygons(body) ==
    {i \in DOMAIN body.fixtures : body.fixtures[i].kind = "polygon"}

Circles(body) ==
    {i \in DOMAIN body.fixtures : body.fixtures[i].kind = "circle"}

\* C1: in every state reached by init, resize, setShape and setSeamOffset
\* with positive width, height and seam offset, the core rectangle has
\* lowerBound < upperBound, strictly, on both axes.
C1_StrictBounds ==
    (initialized /\ seamEpsilon > 0) =>
        /\ center.lowerBound.x < center.upperBound.x
        /\ center.lowerBound.y < center.upperBound.y

\* C2: for FULL with width # height, resize leaves a core rectangle that
\* spans [-major/2 + r, major/2 - r] on the major axis and
\* [-minor/2 + eps, minor/2 - eps] on the minor axis, with r = minor/2.
C2_FullCore ==
    (Resized /\ orient = "FULL" /\ Width # Height) =>
        /\ ends.m_radius = Half(Minor)
        /\ LowMajor = Half(Minor) - Half(Major)
        /\ HighMajor = Half(Major) - Half(Minor)
        /\ LowMinor = seamEpsilon - Half(Minor)
        /\ HighMinor = Half(Minor) - seamEpsilon

\* C3: for width # height and FULL, HALF or HALF_REVERSE, the radius that
\* resize stores is half of the shorter side.
C3_CapRadius ==
    (Resized /\ orient \in {"FULL", "HALF", "HALF_REVERSE"} /\ Width # Height) =>
        ends.m_radius = Half(Minor)

\* C4: for width # height, the core rectangle that resize leaves spans
\* major - numCaps * radius along the major axis, numCaps being 2 for FULL
\* and 1 for HALF and HALF_REVERSE.
C4_MajorSpan ==
    (Resized /\ orient \in {"FULL", "HALF", "HALF_REVERSE"} /\ Width # Height) =>
        HighMajor - LowMajor =
            Major - (IF orient = "FULL" THEN 2 ELSE 1) * ends.m_radius

\* C5: for HALF with width # height, horizontal or vertical, resize deflates
\* the high end of the major axis only, leaving [-major/2, major/2 - r], and
\* insets the minor axis by eps on each side.
C5_HalfCore ==
    (Resized /\ orient = "HALF" /\ Width # Height) =>
        /\ LowMajor = -Half(Major)
        /\ HighMajor = Half(Major) - Half(Minor)
        /\ LowMinor = seamEpsilon - Half(Minor)
        /\ HighMinor = Half(Minor) - seamEpsilon

\* C6: for HALF_REVERSE with width # height, resize leaves the mirror image
\* of HALF: [-major/2 + r, major/2] on the major axis with r = minor/2, the
\* minor axis inset by eps, and no collapse to a point.
C6_HalfReverseCore ==
    (Resized /\ orient = "HALF_REVERSE" /\ Width # Height) =>
        /\ ends.m_radius = Half(Minor)
        /\ LowMajor = Half(Minor) - Half(Major)
        /\ HighMajor = Half(Major)
        /\ LowMinor = seamEpsilon - Half(Minor)
        /\ HighMinor = Half(Minor) - seamEpsilon

\* C7: after createFixtures on an attached obstacle each body carries one
\* core rectangle and two caps for FULL with width # height, one core
\* rectangle and one cap for HALF and HALF_REVERSE with width # height, and
\* no core rectangle and one circle for DEGENERATE or width = height.
C7_FixtureCounts ==
    Created =>
        \A body \in {realbody, drawbody} :
            LET single == orient = "DEGENERATE" \/ Width = Height
            IN  /\ Cardinality(Polygons(body)) = IF single THEN 0 ELSE 1
                /\ Cardinality(Circles(body)) =
                      IF ~single /\ orient = "FULL" THEN 2 ELSE 1
                /\ DOMAIN body.fixtures = Polygons(body) \cup Circles(body)

\* a FULL capsule with a major axis, holding its three fixtures
C7_Witness ==
    /\ Created
    /\ orient = "FULL"
    /\ Width # Height
    /\ Cardinality(Polygons(realbody)) = 1
    /\ Cardinality(Circles(realbody)) = 2

\* C8: when width = height, whatever the orientation asked for,
\* createFixtures creates no core rectangle and one circle, at the local
\* origin, of radius width/2.
C8_SquareIsCircle ==
    (Created /\ Width = Height) =>
        /\ realcore = NULL
        /\ drawcore = NULL
        /\ \A body \in {realbody, drawbody} :
              /\ Cardinality(DOMAIN body.fixtures) = 1
              /\ \A i \in DOMAIN body.fixtures :
                    /\ body.fixtures[i].kind = "circle"
                    /\ body.fixtures[i].p = Vec(0, 0)
                    /\ body.fixtures[i].radius = Half(Width)

\* a 2.0 x 2.0 obstacle asked to be FULL, holding a circle of radius 1.0
C8_Witness ==
    /\ Created
    /\ orient = "FULL"
    /\ dimension = [width |-> 2 * Unit, height |-> 2 * Unit]
    /\ realcap1 # NULL
    /\ realbody.fixtures[realcap1].radius = Unit

\* the fixtures of a body, without their handles: how many there are of each
\* description
Count(body, f) ==
    Cardinality({i \in DOMAIN body.fixtures : body.fixtures[i] = f})

Described(body) == {body.fixtures[i] : i \in DOMAIN body.fixtures}

\* C9: on an attached obstacle, after any sequence of resize, setShape,
\* setDensity, setSeamOffset, createFixtures and releaseFixtures, the real
\* body and the draw body carry the same number of fixtures, with the same
\* shapes and the same densities.
C9_Mirror ==
    (realbody.live /\ drawbody.live) =>
        /\ Cardinality(DOMAIN realbody.fixtures) =
              Cardinality(DOMAIN drawbody.fixtures)
        /\ \A f \in Described(realbody) \cup Described(drawbody) :
              Count(realbody, f) = Count(drawbody, f)

\* setDensity has just changed the density of three fixtures on each body
C9_Witness ==
    /\ lastOp = "setDensity"
    /\ fixture.density > 0
    /\ Cardinality(DOMAIN realbody.fixtures) = 3
    /\ Cardinality(DOMAIN drawbody.fixtures) = 3
    /\ realcore # NULL
    /\ realbody.fixtures[realcore].density = fixture.density

\* a point of the major axis
OnMajor(v) == IF Horizontal THEN Vec(v, 0) ELSE Vec(0, v)

\* where the fixture behind a handle is centred
CentreOf(body, h) == body.fixtures[h].p

\* C10: after createFixtures with width # height, FULL has one cap at each
\* of the two major-axis bounds of the core rectangle, HALF has its only cap
\* at the low major-axis bound, HALF_REVERSE has its only cap at the high
\* major-axis bound, and every cap has coordinate 0 on the minor axis.
C10_CapPlacement ==
    (Created /\ Width # Height /\ orient # "DEGENERATE") =>
        /\ realcap1 # NULL
        /\ drawcap1 # NULL
        /\ \A b \in {<<realbody, realcap1, realcap2>>,
                     <<drawbody, drawcap1, drawcap2>>} :
              /\ \A i \in Circles(b[1]) :
                    IF Horizontal THEN b[1].fixtures[i].p.y = 0
                                  ELSE b[1].fixtures[i].p.x = 0
              /\ orient = "FULL" =>
                    /\ b[3] # NULL
                    /\ {CentreOf(b[1], b[2]), CentreOf(b[1], b[3])} =
                          {OnMajor(LowMajor), OnMajor(HighMajor)}
                    /\ LowMajor # HighMajor
              /\ orient = "HALF" =>
                    /\ b[3] = NULL
                    /\ CentreOf(b[1], b[2]) = OnMajor(LowMajor)
              /\ orient = "HALF_REVERSE" =>
                    /\ b[3] = NULL
                    /\ CentreOf(b[1], b[2]) = OnMajor(HighMajor)

\* a 4.0 x 2.0 FULL capsule with its caps at x = -1.0 and x = 1.0
C10_Witness ==
    /\ Created
    /\ orient = "FULL"
    /\ dimension = [width |-> 4 * Unit, height |-> 2 * Unit]
    /\ realcap1 # NULL
    /\ realcap2 # NULL
    /\ CentreOf(realbody, realcap1) = Vec(-Unit, 0)
    /\ CentreOf(realbody, realcap2) = Vec(Unit, 0)


HandlesNull ==
    /\ realcore = NULL /\ realcap1 = NULL /\ realcap2 = NULL
    /\ drawcore = NULL /\ drawcap1 = NULL /\ drawcap2 = NULL

NoFixturesLeft ==
    /\ DOMAIN realbody.fixtures = {}
    /\ DOMAIN drawbody.fixtures = {}

\* C11: releaseFixtures leaves both bodies without fixtures and all six
\* handles null, and a releaseFixtures that follows a releaseFixtures, or
\* that finds no fixtures, destroys nothing and changes nothing.
C11_ReleaseIdempotent ==
    [][lastOp' = "releaseFixtures" =>
          /\ HandlesNull'
          /\ NoFixturesLeft'
          /\ (lastOp = "releaseFixtures" \/ NoFixturesLeft) =>
                UNCHANGED <<initialized, orient, seamEpsilon, geometry,
                            fixture, handles, realbody, drawbody, dirty>>]_vars

\* releaseFixtures has run on an obstacle that has bodies and has had
\* fixtures created on them
C11_Witness ==
    /\ lastOp = "releaseFixtures"
    /\ realbody.live
    /\ drawbody.live
    /\ fixture.shape = "_ends"
    /\ HandlesNull
    /\ NoFixturesLeft

\* what createFixtures, releaseFixtures, createFixtures would leave, started
\* in this state
Recreated ==
    LET fs == releaseAll(FixtureState)
    IN  createAll(fs, ends, fixture, dimension, orient, center, shape)

\* C12: createFixtures, then releaseFixtures, then createFixtures leaves
\* fixtures with the same count, the same rectangle corners, cap centres and
\* radius, and the same densities as the first createFixtures did.
C12_RoundTrip ==
    Created =>
        /\ Recreated.fs.realbody.fixtures = realbody.fixtures
        /\ Recreated.fs.drawbody.fixtures = drawbody.fixtures
        /\ Recreated.fixture.density = fixture.density

\* a FULL capsule of positive density just created
C12_Witness ==
    /\ Created
    /\ orient = "FULL"
    /\ Width # Height
    /\ fixture.density > 0
    /\ Cardinality(DOMAIN realbody.fixtures) = 3

\* the handles of the obstacle that refer to fixture f of a body
Referring(hs, f) == {k \in 1..3 : hs[k] = f}

Owned(body, hs) ==
    /\ \A f \in DOMAIN body.fixtures : Cardinality(Referring(hs, f)) = 1
    /\ \A k \in 1..3 : hs[k] # NULL => hs[k] \in DOMAIN body.fixtures
    /\ Cardinality(DOMAIN body.fixtures) <= 3

\* C13: after a single init and any sequence of createFixtures,
\* releaseFixtures, resize, setShape and setDensity, every fixture alive on a
\* body is referred to by exactly one handle, every handle that is not null
\* refers to a fixture that is alive, so that none is destroyed twice, and
\* each body carries at most three fixtures.
C13_NoLeak ==
    /\ Owned(realbody, <<realcore, realcap1, realcap2>>)
    /\ Owned(drawbody, <<drawcore, drawcap1, drawcap2>>)

\* createFixtures has run and each of the three fixtures of each body is
\* behind its own handle
C13_Witness ==
    /\ Created
    /\ orient = "FULL"
    /\ DOMAIN realbody.fixtures = {realcore, realcap1, realcap2}
    /\ DOMAIN drawbody.fixtures = {drawcore, drawcap1, drawcap2}
    /\ Cardinality(DOMAIN realbody.fixtures) = 3
    /\ Cardinality(DOMAIN drawbody.fixtures) = 3


\* the density of the fixture behind handle h of a body is d, if there is one
DensityIs(body, h, d) == h # NULL => body.fixtures[h].density = d

\* C14: setDensity(v) stores v as the density of the material and, on the
\* fixtures that exist on the two bodies, sets the density of the core to v
\* and the density of each cap to v/2.
C14_SetDensity ==
    [][lastOp' = "setDensity" =>
          \A v \in Densities :
             setDensity(v) =>
                /\ fixture'.density = v
                /\ DensityIs(realbody', realcore', v)
                /\ DensityIs(drawbody', drawcore', v)
                /\ DensityIs(realbody', realcap1', Half(v))
                /\ DensityIs(drawbody', drawcap1', Half(v))
                /\ DensityIs(realbody', realcap2', Half(v))
                /\ DensityIs(drawbody', drawcap2', Half(v))]_vars

\* setDensity(10) on a FULL capsule: the core has 10 and each cap has 5
C14_Witness ==
    /\ lastOp = "setDensity"
    /\ orient = "FULL"
    /\ Width # Height
    /\ fixture.density = 10 * Unit
    /\ realcore # NULL /\ realcap1 # NULL /\ realcap2 # NULL
    /\ realbody.fixtures[realcore].density = 10 * Unit
    /\ realbody.fixtures[realcap1].density = 5 * Unit
    /\ realbody.fixtures[realcap2].density = 5 * Unit
    /\ drawbody.fixtures[drawcap2].density = 5 * Unit

\* C15: createFixtures on a capsule with width # height and orientation
\* FULL, HALF or HALF_REVERSE, the stored density being d, gives the core
\* density d and every cap density d/2 on both bodies, and leaves the stored
\* density at d.
C15_CreateDensities ==
    [][(Created' /\ Width' # Height' /\ orient' # "DEGENERATE") =>
          LET d == fixture.density
          IN  /\ fixture'.density = d
              /\ realcore' # NULL /\ drawcore' # NULL
              /\ realcap1' # NULL /\ drawcap1' # NULL
              /\ DensityIs(realbody', realcore', d)
              /\ DensityIs(drawbody', drawcore', d)
              /\ DensityIs(realbody', realcap1', Half(d))
              /\ DensityIs(drawbody', drawcap1', Half(d))
              /\ DensityIs(realbody', realcap2', Half(d))
              /\ DensityIs(drawbody', drawcap2', Half(d))
              /\ \A i \in Circles(realbody') :
                    realbody'.fixtures[i].density = Half(d)
              /\ \A i \in Circles(drawbody') :
                    drawbody'.fixtures[i].density = Half(d)]_vars

\* a HALF capsule created with density 10: core 10, cap 5, stored 10
C15_Witness ==
    /\ Created
    /\ orient = "HALF"
    /\ Width # Height
    /\ fixture.density = 10 * Unit
    /\ realcore # NULL /\ realcap1 # NULL
    /\ realbody.fixtures[realcore].density = 10 * Unit
    /\ realbody.fixtures[realcap1].density = 5 * Unit

\* a fixture as it is apart from its density
ShapeOf(f) == [kind |-> f.kind, vertices |-> f.vertices, p |-> f.p,
               radius |-> f.radius]

SameShapes(before, after) ==
    /\ after.live = before.live
    /\ DOMAIN after.fixtures = DOMAIN before.fixtures
    /\ \A i \in DOMAIN before.fixtures :
          ShapeOf(after.fixtures[i]) = ShapeOf(before.fixtures[i])

\* C16: setDensity creates no fixture and destroys none: the handles and the
\* fixtures of both bodies are the same before and after it, and the extent,
\* the orientation, the seam offset, the core rectangle and the cap radius
\* do not change.
C16_SetDensityFrame ==
    [][lastOp' = "setDensity" =>
          /\ UNCHANGED handles
          /\ SameShapes(realbody, realbody')
          /\ SameShapes(drawbody, drawbody')
          /\ UNCHANGED <<dimension, orient, seamEpsilon, center, shape, ends>>]_vars

\* setDensity has changed the density of the two fixtures of a HALF capsule
C16_Witness ==
    /\ lastOp = "setDensity"
    /\ orient = "HALF"
    /\ Width # Height
    /\ Cardinality(DOMAIN realbody.fixtures) = 2
    /\ realcore # NULL
    /\ realbody.fixtures[realcore].density = 5 * Unit
    /\ realbody.fixtures[realcore].vertices = shape

\* C17: setSeamOffset(v) with v <= 0, so with 0 and with -0.01, fails
\* before it changes anything: the seam offset, the core rectangle and the
\* dirty flag keep their values.
C17_SeamOffsetRejected ==
    [][lastOp' = "setSeamOffset" =>
          \A v \in SeamOffsets :
             (v <= 0 /\ setSeamOffset(v)) =>
                /\ returned' = "assert"
                /\ UNCHANGED <<seamEpsilon, center, shape, dirty>>]_vars

\* a call with a value that is not positive has failed, on an obstacle whose
\* seam offset had been set to 0.02 and whose fixtures were up to date
C17_Witness ==
    /\ lastOp = "setSeamOffset"
    /\ returned = "assert"
    /\ seamEpsilon = 2 * DEFAULT_EPSILON
    /\ dirty = FALSE


\* the geometry resize computes from the extent, the orientation and the
\* seam offset of this state
Fresh == resizeGeometry(dimension, orient, seamEpsilon)

\* C18: setSeamOffset(v) with v > 0 stores v and recomputes the geometry as
\* resize does: afterwards the core rectangle is the one resize computes
\* from the current extent with eps = v.
C18_SeamOffsetRecomputes ==
    (lastOp = "setSeamOffset" /\ returned = "void") =>
        /\ center = AABB(Fresh)
        /\ shape = corners(Fresh)

HoldsFixtures == realcore # NULL \/ realcap1 # NULL \/ realcap2 # NULL

\* C19, as claimed: when resize or setShape returns on an attached obstacle
\* that holds fixtures, the fixtures have been released and created again
\* and are the ones that belong to the new geometry.
C19_RefixturedOnReturn ==
    (lastOp \in {"resize", "setShape"} /\ realbody.live /\ drawbody.live
        /\ HoldsFixtures) =>
        /\ Recreated.fs.realbody.fixtures = realbody.fixtures
        /\ Recreated.fs.drawbody.fixtures = drawbody.fixtures

\* C20: init on an obstacle that is initialised already fails, returning
\* false, and leaves the orientation, the extent, the seam offset, the core
\* rectangle and the six handles as they were.
C20_ReinitFails ==
    [][(initialized /\ lastOp' = "init") =>
          /\ returned' = "false"
          /\ UNCHANGED <<orient, dimension, seamEpsilon, center, handles>>]_vars


\* a body handle is nullptr
Absent == ~realbody.live \/ ~drawbody.live

\* releaseFixtures would call DestroyFixture through a body handle
Dereferences ==
    \/ realcore # NULL /\ drawcore # NULL
    \/ realcap1 # NULL /\ drawcap1 # NULL
    \/ realcap2 # NULL /\ drawcap2 # NULL

\* C21: createFixtures and releaseFixtures called while a body is absent
\* return normally and do nothing: no handle and no fixture of either body
\* changes, and no DestroyFixture is called through the absent body.
C21_AbsentBodyNoOp ==
    [][(Absent /\ lastOp' \in {"createFixtures", "releaseFixtures"}) =>
          /\ returned' = "void"
          /\ UNCHANGED <<handles, realbody, drawbody, ends, fixture>>
          /\ ~Dereferences]_vars

\* createFixtures has returned on an obstacle that has no bodies yet
C21_Witness ==
    /\ lastOp = "createFixtures"
    /\ Absent
    /\ HandlesNull
    /\ DOMAIN realbody.fixtures = {}
    /\ DOMAIN drawbody.fixtures = {}


CallbackNames == {"buttonDownCB", "buttonUpCB", "motionCB",
                  "touchDownCB", "touchUpCB", "touchmotionCB"}

\* C22: InputController::init returns false when the controller is active
\* already, and then adds no listener and acquires no key; it returns false
\* as well when the platform has neither a mouse nor a touch screen.
C22_SecondInitFails ==
    [][lastOp' = "InputController_init" =>
          /\ (active \/ (~mouse.present /\ ~touch.present)) => returned' = "false"
          /\ active => UNCHANGED <<devices, mouseKey, touchKey>>]_allvars

\* C23: a callback changes nothing but the buffered state of its device, so
\* currDown, prevDown, currPos and prevPos keep their values between two
\* updates; update moves currDown and currPos to prevDown and prevPos and
\* copies the buffered state of the device (the mouse if there is one) to
\* currDown and currPos, leaving the buffered state as it was.
C23_FrameSynchronised ==
    [][/\ lastOp' \in CallbackNames =>
             UNCHANGED <<polled, devices, active, mouseKey, touchKey>>
       /\ lastOp' = "InputController_update" =>
             /\ prevDown' = currDown
             /\ prevPos' = currPos
             /\ currDown' = (IF mouse.present THEN Byte(mouseDown)
                                               ELSE touchDown)
             /\ currPos' = (IF mouse.present THEN mousePos ELSE touchPos)
             /\ UNCHANGED <<buffered, devices, active, mouseKey, touchKey>>
      ]_allvars

\* buttonDownCB has buffered a press at (1, 0) that no update has shown yet
C23_Witness ==
    /\ lastOp = "buttonDownCB"
    /\ mouseDown
    /\ mousePos = Vec(1, 0)
    /\ currDown = 0
    /\ currPos = Vec(0, 0)

\* what the mouse callbacks do not write
MouseFrame == UNCHANGED <<polled, devices, active, mouseKey, touchKey,
                          touchDown, touchPos>>

\* C30: buttonDownCB records a press and its position exactly when the event
\* has the left button and no press is recorded; buttonUpCB clears the press
\* exactly when one is recorded and the event has the left button; motionCB
\* stores the position exactly when a press is recorded; in every other case,
\* and in every other field, the controller is unchanged.
C30_MousePress ==
    [][\A event \in MouseEvents :
          /\ (lastOp' = "buttonDownCB" /\ buttonDownCB(event)) =>
                /\ IF ~mouseDown /\ event.hasLeft
                   THEN mouseDown' /\ mousePos' = event.position
                   ELSE UNCHANGED <<mouseDown, mousePos>>
                /\ MouseFrame
          /\ (lastOp' = "buttonUpCB" /\ buttonUpCB(event)) =>
                /\ IF mouseDown /\ event.hasLeft
                   THEN ~mouseDown'
                   ELSE UNCHANGED mouseDown
                /\ UNCHANGED mousePos
                /\ MouseFrame
          /\ (lastOp' = "motionCB" /\ motionCB(event)) =>
                /\ IF mouseDown
                   THEN mousePos' = event.position
                   ELSE UNCHANGED mousePos
                /\ UNCHANGED mouseDown
                /\ MouseFrame]_allvars

\* buttonUpCB has returned and the press recorded at (1, 0) is still there:
\* the event was for another button
C30_Witness ==
    /\ lastOp = "buttonUpCB"
    /\ mouseDown
    /\ mousePos = Vec(1, 0)

\* C28: every update steps both worlds or neither, so the two worlds have
\* taken the same number of steps in every state; the duplicate world is
\* stepped with the time step the primary world was last stepped with, and
\* with 0.009 when the primary world had not been stepped before.
C28_Lockstep ==
    [][/\ world.time = duplicate_world.time
       /\ world'.time = duplicate_world'.time
       /\ lastOp' = "GameScene_update" =>
             /\ frame'.stepped = frame'.duplicate_stepped
             /\ frame'.stepped =>
                   /\ world'.timestep \in Timesteps
                   /\ previous_timestep' = world'.timestep
                   /\ duplicate_world'.timestep =
                         (IF world.timestep = 0 THEN 9 ELSE world.timestep)
      ]_allvars

\* both worlds have taken two steps: the primary world one of 0.033 after
\* one of 0.016, the duplicate world one of 0.016 after one of 0.009
C28_Witness ==
    /\ lastOp = "GameScene_update"
    /\ frame.stepped
    /\ world.time = 2
    /\ duplicate_world.time = 2
    /\ world.timestep = 33
    /\ duplicate_world.timestep = 16

\* C29: an update that starts with a knob selected steps neither world and
\* keeps previous_timestep; an update adds the obstacles to the worlds again
\* exactly when it observes a release, and then it also sets sel to -1 and
\* the time of both worlds to 0.
C29_NoStepWhileSelected ==
    [][lastOp' = "GameScene_update" =>
          /\ sel # -1 =>
                /\ ~frame'.stepped /\ ~frame'.duplicate_stepped
                /\ world'.timestep = world.timestep
                /\ duplicate_world'.timestep = duplicate_world.timestep
                /\ world'.time \in {world.time, 0}
                /\ duplicate_world'.time \in {duplicate_world.time, 0}
                /\ previous_timestep' = previous_timestep
          /\ \E cd \in Reads(currDown'), pd \in Reads(prevDown') :
                frame'.added = didRelease(cd, pd)
          /\ frame'.added =>
                /\ sel' = -1
                /\ world'.time = 0 /\ world'.obstacles = 2
                /\ duplicate_world'.time = 0 /\ duplicate_world'.obstacles = 2
      ]_allvars

\* a frame in which the last knob stays selected after the worlds had taken
\* a step: nothing is stepped and nothing is added
C29_Witness ==
    /\ lastOp = "GameScene_update"
    /\ sel = 7
    /\ currDown = 1 /\ prevDown = 1
    /\ ~frame.stepped /\ ~frame.added
    /\ world.time = 1
    /\ previous_timestep = 16


\* C24: after a resize with orientation DEGENERATE, whatever the extent, the
\* cap radius is width / 2 and the core rectangle is [-eps, eps] on both
\* axes; after every resize the lower and the upper bound of the core
\* rectangle differ on both axes.
C24_DegenerateCore ==
    /\ (Resized /\ orient = "DEGENERATE") =>
          /\ ends.m_radius = Half(dimension.width)
          /\ center = [lowerBound |-> Vec(-seamEpsilon, -seamEpsilon),
                       upperBound |-> Vec(seamEpsilon, seamEpsilon)]
    /\ initialized =>
          /\ center.lowerBound.x # center.upperBound.x
          /\ center.lowerBound.y # center.upperBound.y

\* a DEGENERATE capsule of 2.0 x 4.0 resized with a seam offset of 0.02
C24_Witness ==
    /\ lastOp = "resize"
    /\ orient = "DEGENERATE"
    /\ dimension = [width |-> 2 * Unit, height |-> 4 * Unit]
    /\ seamEpsilon = 2 * DEFAULT_EPSILON
    /\ ends.m_radius = Unit
    /\ center.upperBound = Vec(2, 2)


Abs(n) == IF n < 0 THEN -n ELSE n

\* every polygon of the body has its corners inside the extent, and every
\* circle stays inside the extent along the major axis
Inside(body) ==
    /\ \A i \in Polygons(body) :
          \A k \in DOMAIN body.fixtures[i].vertices :
             /\ Abs(body.fixtures[i].vertices[k].x) <= Half(Width)
             /\ Abs(body.fixtures[i].vertices[k].y) <= Half(Height)
    /\ \A i \in Circles(body) :
          Abs(IF Horizontal THEN body.fixtures[i].p.x ELSE body.fixtures[i].p.y)
             + body.fixtures[i].radius <= Half(Major)

\* C25: for every orientation and every extent with width # height, after
\* resize and createFixtures the corners of the core rectangle lie within
\* [-width/2, width/2] x [-height/2, height/2] and every cap has
\* |centre| + radius <= major/2 along the major axis, on both bodies.
C25_Contained ==
    (Created /\ Width # Height /\ 2 * seamEpsilon < Minor) =>
        /\ Inside(realbody)
        /\ Inside(drawbody)


\* C26: on an obstacle that holds the fixtures createFixtures has just made
\* with the stored density d, the single circle of a DEGENERATE or square
\* capsule included, setDensity(d) changes the density of no fixture.
C26_DensityStable ==
    [][(Created /\ HoldsFixtures /\ lastOp' = "setDensity"
          /\ fixture'.density = fixture.density) =>
             UNCHANGED <<realbody, drawbody>>]_vars

\* C27: whatever the sequence of init, repeated or not, createFixtures,
\* releaseFixtures, resize, setShape and setDensity, each real handle is null
\* exactly when its draw counterpart is null.
C27_HandlesPaired ==
    /\ (realcore = NULL) = (drawcore = NULL)
    /\ (realcap1 = NULL) = (drawcap1 = NULL)
    /\ (realcap2 = NULL) = (drawcap2 = NULL)

\* C31: no click is lost: after every press that buttonDownCB or touchDownCB
\* accepts, some later update() shows currDown = true with prevDown = false
\* (a didPress frame), however the release callback and the calls of
\* update() interleave.
C31_NoClickLost ==
    accepted ~> /\ lastOp = "InputController_update"
                /\ \E cd \in Reads(currDown), pd \in Reads(prevDown) :
                      didPress(cd, pd)

====
